---------------------------- MODULE Spec2Model ----------------------------
(***************************************************************************)
(* ParseScript, DecodeHexTx and DecodeHexBlk of src/core_read.cpp.         *)
(*                                                                         *)
(* A text is a sequence of one-character strings; a script is a sequence   *)
(* of bytes (0..255).  One call of ParseScript is modelled as the entry     *)
(* (table build, split, locals), one step per word of the split, and the   *)
(* return.  The variables named like the code's locals hold the locals;    *)
(* trace is a history of the loop iterations, kept for stating properties. *)
(***************************************************************************)
EXTENDS Integers, Sequences, FiniteSets, TLC

\* ------------------------------------------------------------- bounds
\* Longest token sequence of an input of Spec.
MaxTokens == 3
\* Longest free-form token of an input of SpecTok.
MaxLen == 3
\* Longest run of characters after the 0x of a hex-looking token of SpecTok,
\* and longest argument of DecodeHexTx / DecodeHexBlk in SpecDecode.
MaxHexLen == 4

\* --------------------------------------------------------- characters
DigitChars == <<"0", "1", "2", "3", "4", "5", "6", "7", "8", "9">>
UpperChars == <<"A", "B", "C", "D", "E", "F", "G", "H", "I", "J", "K", "L", "M",
                "N", "O", "P", "Q", "R", "S", "T", "U", "V", "W", "X", "Y", "Z">>
LowerChars == <<"a", "b", "c", "d", "e", "f", "g", "h", "i", "j", "k", "l", "m",
                "n", "o", "p", "q", "r", "s", "t", "u", "v", "w", "x", "y", "z">>

IndexOf(seq, c) == CHOOSE i \in 1..Len(seq) : seq[i] = c
InSeq(seq, c) == \E i \in 1..Len(seq) : seq[i] = c

\* The byte a character of a std::string holds (ASCII).
CharCode(c) ==
    IF InSeq(DigitChars, c) THEN 47 + IndexOf(DigitChars, c)
    ELSE IF InSeq(UpperChars, c) THEN 64 + IndexOf(UpperChars, c)
    ELSE IF InSeq(LowerChars, c) THEN 96 + IndexOf(LowerChars, c)
    ELSE IF c = " " THEN 32
    ELSE IF c = "\t" THEN 9
    ELSE IF c = "\n" THEN 10
    ELSE IF c = "'" THEN 39
    ELSE IF c = "-" THEN 45
    ELSE IF c = "_" THEN 95
    ELSE IF c = "\\" THEN 92
    ELSE 63

\* boost::algorithm::is_digit() in the classic locale.
is_digit(c) == InSeq(DigitChars, c)

\* A faulty is_separator: the tab is left out of the set.
is_separator_notab(c) == c \in {" ", "\n"}

\* boost::algorithm::is_any_of(" \t\n")
is_separator(c) == c \in {" ", "\t", "\n"}

\* boost::algorithm::all(range, pred): true of the empty range.
all_digits(w) == \A i \in 1..Len(w) : is_digit(w[i])

starts_with(w, p) ==
    /\ Len(w) >= Len(p)
    /\ SubSeq(w, 1, Len(p)) = p

ends_with(w, p) ==
    /\ Len(w) >= Len(p)
    /\ SubSeq(w, Len(w) - Len(p) + 1, Len(w)) = p

\* std::string(w.begin() + n, w.end())
Tail_n(w, n) == SubSeq(w, n + 1, Len(w))

\* ---------------------------------------------------------- hex codec
\* HexDigit of utilstrencodings: the digit's value, or -1.
HexDigit(c) ==
    IF InSeq(DigitChars, c) THEN IndexOf(DigitChars, c) - 1
    ELSE IF InSeq(SubSeq(LowerChars, 1, 6), c) THEN 9 + IndexOf(LowerChars, c)
    ELSE IF InSeq(SubSeq(UpperChars, 1, 6), c) THEN 9 + IndexOf(UpperChars, c)
    ELSE -1

\* IsHex: every character a hex digit, length even and not zero.
IsHex(str) ==
    /\ \A i \in 1..Len(str) : HexDigit(str[i]) >= 0
    /\ Len(str) > 0
    /\ Len(str) % 2 = 0

\* ParseHex: two digits make one byte, high nibble first; stops at the
\* first character that is no hex digit or at a digit without a partner.
RECURSIVE ParseHex(_)
ParseHex(str) ==
    IF Len(str) < 2 \/ HexDigit(str[1]) < 0 \/ HexDigit(str[2]) < 0
    THEN << >>
    ELSE << HexDigit(str[1]) * 16 + HexDigit(str[2]) >> \o ParseHex(Tail_n(str, 2))


\* ------------------------------------------------------------ opcodes
OP_0 == 0
OP_PUSHDATA1 == 76
OP_PUSHDATA2 == 77
OP_PUSHDATA4 == 78
OP_1NEGATE == 79
OP_1 == 81
OP_16 == 96
OP_NOP == 97
OP_1ADD == 139
OP_ADD == 147
FIRST_UNDEFINED_OP_VALUE == 188

n_OP_ == <<"O", "P", "_">>
n_PUSHDATA == <<"P", "U", "S", "H", "D", "A", "T", "A">>
n_UNKNOWN == n_OP_ \o <<"U", "N", "K", "N", "O", "W", "N">>

\* GetOpName, for the opcodes the model's vocabulary names; every other
\* value is given the sentinel name, so it gets no entry in the table.
GetOpName(op) ==
    CASE op = OP_0         -> <<"0">>
      [] op = OP_PUSHDATA1 -> n_OP_ \o n_PUSHDATA \o <<"1">>
      [] op = OP_PUSHDATA2 -> n_OP_ \o n_PUSHDATA \o <<"2">>
      [] op = OP_PUSHDATA4 -> n_OP_ \o n_PUSHDATA \o <<"4">>
      [] op = OP_1NEGATE   -> <<"-", "1">>
      [] op = OP_1         -> <<"1">>
      [] op = OP_16        -> <<"1", "6">>
      [] op = OP_NOP       -> n_OP_ \o <<"N", "O", "P">>
      [] op = OP_1ADD      -> n_OP_ \o <<"1", "A", "D", "D">>
      [] op = OP_ADD       -> n_OP_ \o <<"A", "D", "D">>
      [] OTHER             -> n_UNKNOWN

\* boost::algorithm::replace_first(str, pat, ""): the first occurrence of
\* pat, wherever it is, is removed; str is unchanged when there is none.
replace_first(str, pat) ==
    LET hits == {i \in 1..(Len(str) - Len(pat) + 1) :
                    SubSeq(str, i, i + Len(pat) - 1) = pat}
    IN  IF hits = {} THEN str
        ELSE LET i == CHOOSE j \in hits : \A k \in hits : j <= k
             IN  SubSeq(str, 1, i - 1) \o SubSeq(str, i + Len(pat), Len(str))

\* A std::map<string, opcodetype> is a function from its keys.
EmptyMap == [n \in {} |-> 0]

\* m[key] = op
MapSet(m, key, op) ==
    [n \in (DOMAIN m) \cup {key} |-> IF n = key THEN op ELSE m[n]]

\* A faulty InsertOp: the values below OP_PUSHDATA1 are not skipped.
InsertOp_noskip(m, op) ==
    IF GetOpName(op) = n_UNKNOWN THEN m
    ELSE MapSet(MapSet(m, GetOpName(op), op),
                replace_first(GetOpName(op), n_OP_), op)

\* A faulty InsertOp: only the canonical name is inserted.
InsertOp_noalias(m, op) ==
    IF op < OP_PUSHDATA1 THEN m
    ELSE IF GetOpName(op) = n_UNKNOWN THEN m
    ELSE MapSet(m, GetOpName(op), op)

\* One iteration of the build loop (lines 33-43).
InsertOp(m, op) ==
    IF op < OP_PUSHDATA1 THEN m
    ELSE IF GetOpName(op) = n_UNKNOWN THEN m
    ELSE MapSet(MapSet(m, GetOpName(op), op),
                replace_first(GetOpName(op), n_OP_), op)

\* The values whose iteration reaches the two insertions.
InsertingOps ==
    {o \in 0..(FIRST_UNDEFINED_OP_VALUE - 1) : InsertOp(EmptyMap, o) # EmptyMap}

\* The build loop from op on (line 32).  An iteration that takes one of
\* the two continues leaves the table as it is, so the loop goes straight
\* to the next value that inserts.
RECURSIVE BuildLoop(_, _)
BuildLoop(m, op) ==
    LET rest == {o \in InsertingOps : o >= op}
    IN  IF rest = {} THEN m
        ELSE LET o == CHOOSE x \in rest : \A y \in rest : x <= y
             IN  BuildLoop(InsertOp(m, o), o + 1)

\* Lines 31-45: the table is filled when it is found empty.
BuildIfEmpty(m) ==
    IF DOMAIN m = {} THEN BuildLoop(m, 0) ELSE m

\* -------------------------------------------------- script encoders
\* ReadLE16 / ReadLE32 / *offset: n bytes at position off + 1, little endian.
RECURSIVE ReadLE(_, _, _)
ReadLE(bytes, off, n) ==
    IF n = 0 THEN 0
    ELSE bytes[off + 1] + 256 * ReadLE(bytes, off + 1, n - 1)

\* n as w little-endian bytes.
RECURSIVE WriteLE(_, _)
WriteLE(n, w) ==
    IF w = 0 THEN << >> ELSE << n % 256 >> \o WriteLE(n \div 256, w - 1)

\* The bytes of a magnitude, least significant first (CScriptNum::serialize).
RECURSIVE MagnitudeLE(_)
MagnitudeLE(a) ==
    IF a = 0 THEN << >> ELSE << a % 256 >> \o MagnitudeLE(a \div 256)

\* CScriptNum::serialize: sign and magnitude, the sign in the top bit of
\* the last byte, the empty vector for zero.
ScriptNumSerialize(n) ==
    IF n = 0 THEN << >>
    ELSE LET neg == n < 0
             mag == MagnitudeLE(IF neg THEN -n ELSE n)
             top == mag[Len(mag)]
         IN  IF top >= 128
             THEN mag \o << IF neg THEN 128 ELSE 0 >>
             ELSE IF neg
                  THEN SubSeq(mag, 1, Len(mag) - 1) \o << top + 128 >>
                  ELSE mag

\* CScript << vector: the push prefix for the size, then the bytes.
PushData(b) ==
    IF Len(b) < OP_PUSHDATA1 THEN << Len(b) >> \o b
    ELSE IF Len(b) <= 255 THEN << OP_PUSHDATA1 >> \o WriteLE(Len(b), 1) \o b
    ELSE IF Len(b) <= 65535 THEN << OP_PUSHDATA2 >> \o WriteLE(Len(b), 2) \o b
    ELSE << OP_PUSHDATA4 >> \o WriteLE(Len(b), 4) \o b

\* CScript << int64_t: the small-number opcodes, else a pushed CScriptNum.
PushInt64(n) ==
    IF n = -1 \/ (n >= 1 /\ n <= 16) THEN << n + (OP_1 - 1) >>
    ELSE IF n = 0 THEN << OP_0 >>
    ELSE PushData(ScriptNumSerialize(n))

\* The value of a run of decimal digits.
RECURSIVE DigitsValue(_)
DigitsValue(d) ==
    IF d = << >> THEN 0
    ELSE 10 * DigitsValue(SubSeq(d, 1, Len(d) - 1)) + HexDigit(d[Len(d)])

\* The leading run of decimal digits of str.
RECURSIVE DigitPrefix(_)
DigitPrefix(str) ==
    IF str = << >> \/ ~is_digit(str[1]) THEN << >>
    ELSE << str[1] >> \o DigitPrefix(Tail_n(str, 1))

\* atoi64 (strtoll, base 10): an optional sign, then the leading digits;
\* 0 when there are none.  (strtoll saturates at the int64 limits; the
\* tokens of the model are far shorter than that.)
atoi64(str) ==
    IF starts_with(str, <<"-">>)
    THEN -DigitsValue(DigitPrefix(Tail_n(str, 1)))
    ELSE DigitsValue(DigitPrefix(str))

\* ----------------------------------------------------------- split
\* boost::algorithm::split(words, s, is_any_of(" \t\n"), token_compress_on):
\* the pieces between the runs of separators; a run at either end leaves an
\* empty piece there, and the empty text gives one empty word.
RECURSIVE SplitFrom(_, _, _, _)
SplitFrom(text, i, cur, prevSep) ==
    IF i > Len(text) THEN << cur >>
    ELSE IF is_separator(text[i])
         THEN IF prevSep THEN SplitFrom(text, i + 1, cur, TRUE)
              ELSE << cur >> \o SplitFrom(text, i + 1, << >>, TRUE)
         ELSE SplitFrom(text, i + 1, Append(cur, text[i]), FALSE)

split(text) == SplitFrom(text, 1, << >>, FALSE)


\* ------------------------------------------------------------- state
VARIABLES
    pc,             \* where the call of ParseScript is: entry, loop, returned, thrown
    s,              \* the argument of ParseScript
    mapOpNames,     \* the static table
    words,          \* the split of s
    idx,            \* how many words the loop has taken
    result,         \* the script being built
    push_size, next_push_size, script_size, push_data_size,
    size_change,
    err,            \* the exception thrown, if any
    trace,          \* history: one record per non-empty word taken
    dec,            \* a call of DecodeHexTx / DecodeHexBlk
    thr             \* the callers racing through the table build

asmvars == << pc, s, words, idx, result, push_size, next_push_size,
              script_size, push_data_size, size_change, err, trace >>
vars == << asmvars, mapOpNames, dec, thr >>

NoError == [kind |-> "none", fmt |-> "", text |-> << >>, nums |-> << >>]

\* Lines 86-88: a fixed message.
HexError(input, w) ==
    [kind |-> "MalformedHex",
     fmt  |-> "Hex numbers expected to be formatted in full-byte chunks (ex: 0x00 instead of 0x0)",
     text |-> << >>, nums |-> << >>]

\* A faulty ParseError: the word in place of the input.
ParseError_token(input, w) ==
    [kind |-> "UnterminatedOrUnknownToken",
     fmt  |-> "Error parsing script: ",
     text |-> w, nums |-> << >>]

\* Line 117: "Error parsing script: " + s
ParseError(input, w) ==
    [kind |-> "UnterminatedOrUnknownToken",
     fmt  |-> "Error parsing script: ",
     text |-> input, nums |-> << >>]

\* Lines 124-127: the two counts, and nothing of the input.
PushError(input, push, change) ==
    [kind |-> "PushSizeMismatch",
     fmt  |-> "Wrong number of bytes being pushed. Expected:%1 Pushed:%2",
     text |-> << >>, nums |-> << push, change >>]

\* ---------------------------------------------------- the four rules
\* Lines 71-74.
IsDecimal(w) ==
    \/ all_digits(w)
    \/ (starts_with(w, <<"-">>) /\ all_digits(Tail_n(w, 1)))

\* A faulty IsHexToken: asks for two characters after the prefix.
IsHexToken_long(w) == starts_with(w, <<"0", "x">>) /\ Len(w) > 3

\* Lines 82-83.
IsHexToken(w) == starts_with(w, <<"0", "x">>) /\ Len(w) > 2

\* Lines 99-100.
IsQuoted(w) ==
    Len(w) >= 2 /\ starts_with(w, <<"'">>) /\ ends_with(w, <<"'">>)

\* Line 109.
IsOpName(m, w) == w \in DOMAIN m

\* Which branch of the loop body takes the word: the first that matches.
Rule(m, w) ==
    IF IsDecimal(w) THEN "number"
    ELSE IF IsHexToken(w)
         THEN IF IsHex(Tail_n(w, 2)) THEN "hex" ELSE "badhex"
    ELSE IF IsQuoted(w) THEN "quoted"
    ELSE IF IsOpName(m, w) THEN "opcode"
    ELSE "none"

Bytes(str) == [i \in 1..Len(str) |-> CharCode(str[i])]

\* A faulty HexBytes: the bytes pushed as data, with a length prefix.
HexBytes_pushed(w) == PushData(ParseHex(Tail_n(w, 2)))

\* Lines 92-95: the decoded bytes, inserted as they are.
HexBytes(w) == ParseHex(Tail_n(w, 2))

\* A faulty QuotedBytes: the quotes are pushed with what they enclose.
QuotedBytes_whole(w) == PushData(Bytes(w))

\* Lines 103-105: what is between the two quotes, pushed as data.
QuotedBytes(w) == PushData(Bytes(SubSeq(w, 2, Len(w) - 1)))

\* A faulty Appended: the bytes are put in front of what result holds.
Appended_front(res, bytes) == bytes \o res

\* Lines 77, 95, 105 and 113: result << x and result.insert(result.end(),
\* ...) add the bytes after what result holds.
Appended(res, bytes) == res \o bytes

\* What the branch appends to result.
Emit(m, w) ==
    CASE Rule(m, w) = "number" -> PushInt64(atoi64(w))
      [] Rule(m, w) = "hex"    -> HexBytes(w)
      [] Rule(m, w) = "quoted" -> QuotedBytes(w)
      [] Rule(m, w) = "opcode" -> << m[w] >>
      [] OTHER                 -> << >>

\* ------------------------------------------------- push bookkeeping
\* A faulty Mismatch: lets a word append more than is expected.
Mismatch_short(push, change) == push # 0 /\ change < push

\* Line 123.
Mismatch(push, change) == push # 0 /\ change # push

RECURSIVE ReadBE(_, _, _)
ReadBE(bytes, off, n) ==
    IF n = 0 THEN 0
    ELSE bytes[off + n] + 256 * ReadBE(bytes, off, n - 1)

\* A faulty ReadField: reads the most significant byte first.
ReadField_be(res, ssize, width) ==
    IF width \in {1, 2, 4} THEN ReadBE(res, ssize, width) ELSE 0

\* Lines 139-145: the length field read back from the script.
ReadField(res, ssize, width) ==
    IF width \in {1, 2, 4} THEN ReadLE(res, ssize, width) ELSE 0

\* A faulty Declares: PUSHDATA4 asks for four bytes and announces a length
\* field of two.
Declares_narrow(op) ==
    IF op < OP_PUSHDATA1 THEN [next |-> op, width |-> 0]
    ELSE IF op = OP_PUSHDATA1 THEN [next |-> 1, width |-> 1]
    ELSE IF op = OP_PUSHDATA2 THEN [next |-> 2, width |-> 2]
    ELSE IF op = OP_PUSHDATA4 THEN [next |-> 4, width |-> 2]
    ELSE [next |-> 0, width |-> 0]

\* A faulty Declares: the byte is taken for an immediate push whatever it is.
Declares_all(op) == [next |-> op, width |-> 0]

\* Lines 158-175: what a single byte appended with nothing pending declares.
\* [next, width]
Declares(op) ==
    IF op < OP_PUSHDATA1 THEN [next |-> op, width |-> 0]
    ELSE IF op = OP_PUSHDATA1 THEN [next |-> 1, width |-> 1]
    ELSE IF op = OP_PUSHDATA2 THEN [next |-> 2, width |-> 2]
    ELSE IF op = OP_PUSHDATA4 THEN [next |-> 4, width |-> 4]
    ELSE [next |-> 0, width |-> 0]

\* A faulty Bookkeep: the first byte of whatever a word appended with nothing
\* pending is looked at, however many bytes there are.
Bookkeep_first(push, width, change, res, ssize) ==
    IF push # 0 /\ width # 0
    THEN [next |-> ReadField(res, ssize, width), width |-> 0]
    ELSE IF push = 0 /\ change >= 1
         THEN LET d == Declares(res[ssize + 1])
              IN  [next |-> d.next,
                   width |-> IF d.width # 0 THEN d.width ELSE width]
         ELSE [next |-> 0, width |-> width]

\* A faulty Bookkeep: a single byte is looked at even when it is the data of
\* a pending push.
Bookkeep_inspect(push, width, change, res, ssize) ==
    IF push # 0 /\ width # 0
    THEN [next |-> ReadField(res, ssize, width), width |-> 0]
    ELSE IF change = 1
         THEN LET d == Declares(res[Len(res)])
              IN  [next |-> d.next,
                   width |-> IF d.width # 0 THEN d.width ELSE width]
         ELSE [next |-> 0, width |-> width]

\* Lines 133-176: next_push_size and push_data_size after a word that
\* passed the size check; next_push_size was zeroed at line 68.
Bookkeep(push, width, change, res, ssize) ==
    IF push # 0 /\ width # 0
    THEN [next |-> ReadField(res, ssize, width), width |-> 0]
    ELSE IF push = 0 /\ change = 1
         THEN LET d == Declares(res[Len(res)])
              IN  [next |-> d.next,
                   width |-> IF d.width # 0 THEN d.width ELSE width]
         ELSE [next |-> 0, width |-> width]

\* ------------------------------------------------------- ParseScript
IdleDec == [pc |-> "idle"]
IdleThr == << >>

\* A faulty Enter: the two sizes that carry the pending push are not set to
\* 0, as if they were static like the table.
Enter_static ==
    /\ pc = "entry"
    /\ mapOpNames' = BuildIfEmpty(mapOpNames)
    /\ words' = split(s)
    /\ idx' = 0
    /\ result' = << >>
    /\ push_size' = 0
    /\ script_size' = 0
    /\ size_change' = 0
    /\ pc' = "loop"
    /\ UNCHANGED << s, err, trace, dec, thr, next_push_size, push_data_size >>

\* Lines 27-54: the table is built when empty, s is split, the locals start at 0.
Enter ==
    /\ pc = "entry"
    /\ mapOpNames' = BuildIfEmpty(mapOpNames)
    /\ words' = split(s)
    /\ idx' = 0
    /\ result' = << >>
    /\ push_size' = 0
    /\ next_push_size' = 0
    /\ script_size' = 0
    /\ push_data_size' = 0
    /\ size_change' = 0
    /\ pc' = "loop"
    /\ UNCHANGED << s, err, trace, dec, thr >>

\* Lines 57-61: an empty word is skipped.
SkipEmpty ==
    /\ pc = "loop"
    /\ idx < Len(words)
    /\ words[idx + 1] = << >>
    /\ idx' = idx + 1
    /\ UNCHANGED << pc, s, mapOpNames, words, result, push_size, next_push_size,
                    script_size, push_data_size, size_change, err, trace, dec, thr >>

Entry(w, rule, push, width, bytes, next, nwidth, threw) ==
    [w |-> w, rule |-> rule, push |-> push, width |-> width, bytes |-> bytes,
     next |-> next, nwidth |-> nwidth, threw |-> threw]

\* Lines 63-176: one non-empty word.
Word ==
    /\ pc = "loop"
    /\ idx < Len(words)
    /\ words[idx + 1] # << >>
    /\ LET w      == words[idx + 1]
           rule   == Rule(mapOpNames, w)
           bytes  == Emit(mapOpNames, w)
           push   == next_push_size
           res    == Appended(result, bytes)
           change == Len(res) - Len(result)
           bk     == Bookkeep(push, push_data_size, change, res, Len(result))
       IN  /\ idx' = idx + 1
           /\ script_size' = Len(result)
           /\ push_size' = push
           /\ IF rule = "badhex"
              THEN /\ pc' = "thrown"
                   /\ err' = HexError(s, w)
                   /\ next_push_size' = 0
                   /\ trace' = Append(trace, Entry(w, rule, push, push_data_size,
                                                   << >>, 0, push_data_size, TRUE))
                   /\ UNCHANGED << result, size_change, push_data_size >>
              ELSE IF rule = "none"
              THEN /\ pc' = "thrown"
                   /\ err' = ParseError(s, w)
                   /\ next_push_size' = 0
                   /\ trace' = Append(trace, Entry(w, rule, push, push_data_size,
                                                   << >>, 0, push_data_size, TRUE))
                   /\ UNCHANGED << result, size_change, push_data_size >>
              ELSE IF Mismatch(push, change)
              THEN /\ pc' = "thrown"
                   /\ err' = PushError(s, push, change)
                   /\ result' = res
                   /\ size_change' = change
                   /\ next_push_size' = 0
                   /\ trace' = Append(trace, Entry(w, rule, push, push_data_size,
                                                   bytes, 0, push_data_size, TRUE))
                   /\ UNCHANGED << push_data_size >>
              ELSE /\ result' = res
                   /\ size_change' = change
                   /\ next_push_size' = bk.next
                   /\ push_data_size' = bk.width
                   /\ trace' = Append(trace, Entry(w, rule, push, push_data_size,
                                                   bytes, bk.next, bk.width, FALSE))
                   /\ UNCHANGED << pc, err >>
    /\ UNCHANGED << s, mapOpNames, words, dec, thr >>

\* Line 179.
Return ==
    /\ pc = "loop"
    /\ idx = Len(words)
    /\ pc' = "returned"
    /\ UNCHANGED << s, mapOpNames, words, idx, result, push_size, next_push_size,
                    script_size, push_data_size, size_change, err, trace, dec, thr >>

\* ------------------------------------------------------------ inputs
t_0x == <<"0", "x">>

\* The tokens the inputs of Spec are made of.
Vocab ==
    { <<"0">>,                                          \* the number 0
      t_0x \o <<"0", "1">>,                             \* raw byte 1
      t_0x \o <<"0", "2">>,                             \* raw byte 2
      t_0x \o <<"4", "c">>,                             \* raw PUSHDATA1
      t_0x \o <<"4", "D">>,                             \* raw PUSHDATA2
      t_0x \o <<"4", "e">>,                             \* raw PUSHDATA4
      t_0x \o <<"0", "1", "0", "0">>,                   \* 1 as a 2-byte field
      t_0x \o <<"0", "2", "0", "0", "0", "0", "0", "0">>, \* 2 as a 4-byte field
      t_0x \o <<"a", "a", "B", "B">>,                   \* two raw bytes
      <<"'", "a", "'">>,                                \* a pushed byte
      <<"'", "'">>,                                     \* the empty push
      n_PUSHDATA \o <<"1">>,                            \* PUSHDATA1 by its alias
      <<"A", "D", "D">>,
      <<"b", "o", "g", "u", "s">> }

\* The token sequences of at most n tokens.
TokenSeqs(n) == UNION { [1..k -> Vocab] : k \in 0..n }

RECURSIVE JoinWith(_, _)
JoinWith(toks, sep) ==
    IF toks = << >> THEN << >>
    ELSE IF Len(toks) = 1 THEN toks[1]
    ELSE toks[1] \o sep \o JoinWith(Tail(toks), sep)

\* Two ways to lay a token sequence out as text.
Plain(toks) == JoinWith(toks, <<" ">>)
Padded(toks) == <<"\t">> \o JoinWith(toks, <<" ", "\n">>) \o <<" ">>

Inputs == { Plain(ts) : ts \in TokenSeqs(MaxTokens) }
              \cup { Padded(ts) : ts \in TokenSeqs(MaxTokens - 1) }

\* The characters the free-form tokens of SpecTok are made of.
Alphabet == {"0", "1", "-", "x", "'", "a", "F", "g"}

\* The non-empty strings over alpha of at most n characters.
Strings(alpha, n) == UNION { [1..k -> alpha] : k \in 1..n }

\* The characters after the 0x of the hex-looking tokens of SpecTok, and of
\* the arguments of DecodeHexTx / DecodeHexBlk in SpecDecode.
HexAlphabet == {"0", "a", "F", "g"}

\* What precedes the token: nothing, a newline, a direct push of 1 or 2
\* bytes, or a PUSHDATA1 waiting for its length field.
Prefixes ==
    { << >>,
      <<"\n">>,
      t_0x \o <<"0", "1">> \o <<" ">>,
      t_0x \o <<"0", "2">> \o <<" ">>,
      n_PUSHDATA \o <<"1">> \o <<" ">> }

\* Every key of the table ParseScript builds.
OpNameTokens == DOMAIN BuildIfEmpty(EmptyMap)

\* A word with its capitals, or only its first character, in lower case.
to_lower(w) ==
    [j \in 1..Len(w) |-> IF InSeq(UpperChars, w[j])
                         THEN LowerChars[IndexOf(UpperChars, w[j])]
                         ELSE w[j]]
first_lower(w) == to_lower(SubSeq(w, 1, 1)) \o Tail_n(w, 1)

\* The keys of the table and their spellings in another case.
NameTokens ==
    OpNameTokens \cup { to_lower(k) : k \in OpNameTokens }
                 \cup { first_lower(k) : k \in OpNameTokens }

\* The characters between the quotes of the quoted tokens of SpecTok.
QuoteAlphabet == {"a", "0", "'", "\\"}

InputsTok ==
    { p \o w : p \in Prefixes, w \in Strings(Alphabet, MaxLen) }
        \cup { p \o t_0x \o w : p \in Prefixes, w \in Strings(HexAlphabet, MaxHexLen) }
        \cup { p \o w : p \in Prefixes, w \in NameTokens }
        \cup { p \o <<"'">> \o w \o <<"'">> :
                   p \in Prefixes, w \in Strings(QuoteAlphabet, MaxLen) }

\* The tokens of the inputs of SpecWs, the runs of whitespace between two
\* of them, and what may come before the first and after the last.
WsVocab ==
    { t_0x \o <<"0", "2">>, t_0x \o <<"4", "c">>, <<"'", "a", "'">>, <<"A", "D", "D">> }
Gaps ==
    { <<" ">>, <<"\t">>, <<"\n">>, <<" ", " ">>, <<"\n", "\t", " ">> }
Margins == Gaps \cup { << >> }

InputsWs ==
    { lead \o JoinWith(ts, gap) \o trail :
        lead \in Margins, trail \in Margins, gap \in Gaps,
        ts \in UNION { [1..k -> WsVocab] : k \in 0..2 } }

\* The arguments of the successive calls of SpecCalls: calls that return
\* with nothing pending, with a push or a length field pending, and calls
\* that throw each of the three errors.
CallInputs ==
    { << >>,
      <<"1">>,
      <<"A", "D", "D">>,
      n_PUSHDATA \o <<"1">>,
      <<"'", "a", "'">>,
      t_0x \o <<"0", "2">>,
      t_0x \o <<"4", "c">>,
      t_0x \o <<"0", "2", " ">> \o t_0x \o <<"a", "a", "B", "B">>,
      t_0x \o <<"4", "c", " ">> \o t_0x \o <<"0", "1">>,
      t_0x \o <<"0", "2", " ", "A", "D", "D">>,
      t_0x \o <<"0">>,
      <<"b", "o", "g", "u", "s">> }

\* ---------------------------------------------------- specifications
InitAsm(inputs) ==
    /\ pc = "entry"
    /\ s \in inputs
    /\ mapOpNames = EmptyMap
    /\ words = << >>
    /\ idx = 0
    /\ result = << >>
    /\ push_size = 0
    /\ next_push_size = 0
    /\ script_size = 0
    /\ push_data_size = 0
    /\ size_change = 0
    /\ err = NoError
    /\ trace = << >>
    /\ dec = IdleDec
    /\ thr = IdleThr

Init == InitAsm(Inputs)

Next == Enter \/ SkipEmpty \/ Word \/ Return

\* One call of ParseScript on a sequence of tokens of the vocabulary.
Spec == Init /\ [][Next]_vars

InitTok == InitAsm(InputsTok)

\* One call of ParseScript on a free-form token, after a prefix.
SpecTok == InitTok /\ [][Next]_vars

\* Line 25: ParseScript is called again after a call that returned or threw.
\* The static table stays; the frame of the new call holds whatever the old
\* one left until lines 27-54 initialise it, and the caller keeps the
\* exception it caught.
Call ==
    /\ pc \in {"returned", "thrown"}
    /\ pc' = "entry"
    /\ s' \in CallInputs
    /\ trace' = << >>
    /\ UNCHANGED << mapOpNames, words, idx, result, push_size, next_push_size,
                    script_size, push_data_size, size_change, err, dec, thr >>

InitCalls == InitAsm(CallInputs)

NextCalls == Enter \/ SkipEmpty \/ Word \/ Return \/ Call

\* Calls of ParseScript one after another in one process.
SpecCalls == InitCalls /\ [][NextCalls]_vars

InitWs == InitAsm(InputsWs)

\* One call of ParseScript on tokens laid out with whitespace of every kind.
SpecWs == InitWs /\ [][Next]_vars

\* ------------------------------------------- DecodeHexTx, DecodeHexBlk
\* What the deserializer (operator>> of the stream) may do with n bytes: throw
\* a std::exception, or return having consumed some of them.
Outcomes(n) ==
    { [threw |-> TRUE, left |-> n] } \cup { [threw |-> FALSE, left |-> k] : k \in 0..n }

\* Lines 184-198.
TxResult(hex, out) ==
    IF ~IsHex(hex) THEN FALSE
    ELSE IF out.threw THEN FALSE
    ELSE IF out.left # 0 THEN FALSE
    ELSE TRUE

\* Lines 203-215: the stream is not looked at after the read.
BlkResult(hex, out) ==
    IF ~IsHex(hex) THEN FALSE
    ELSE IF out.threw THEN FALSE
    ELSE TRUE

\* The finished call: what was asked, what the deserializer did (it runs
\* only on a valid hex string), and the value returned.
Decoded(fn, hex, out, ret) ==
    [pc |-> "done", fn |-> fn, hex |-> hex,
     ran |-> IsHex(hex),
     threw |-> IsHex(hex) /\ out.threw,
     left |-> IF IsHex(hex) THEN out.left ELSE 0,
     ret |-> ret]

DecodeHexTx ==
    /\ dec.pc = "call"
    /\ \E out \in Outcomes(Len(ParseHex(dec.hex))) :
           dec' = Decoded("tx", dec.hex, out, TxResult(dec.hex, out))
    /\ UNCHANGED << asmvars, mapOpNames, thr >>

DecodeHexBlk ==
    /\ dec.pc = "call"
    /\ \E out \in Outcomes(Len(ParseHex(dec.hex))) :
           dec' = Decoded("blk", dec.hex, out, BlkResult(dec.hex, out))
    /\ UNCHANGED << asmvars, mapOpNames, thr >>

HexArgs == { << >> } \cup Strings(HexAlphabet, MaxHexLen)

InitDecode ==
    /\ dec \in { [pc |-> "call", hex |-> h] : h \in HexArgs }
    /\ pc = "idle"
    /\ s = << >>
    /\ mapOpNames = EmptyMap
    /\ words = << >>
    /\ idx = 0
    /\ result = << >>
    /\ push_size = 0
    /\ next_push_size = 0
    /\ script_size = 0
    /\ push_data_size = 0
    /\ size_change = 0
    /\ err = NoError
    /\ trace = << >>
    /\ thr = IdleThr

NextDecode == DecodeHexTx \/ DecodeHexBlk

\* One call of DecodeHexTx or DecodeHexBlk on a string.
SpecDecode == InitDecode /\ [][NextDecode]_vars

\* ------------------------------------- concurrent first calls (lines 29-45)
Threads == {1, 2}

\* The table a finished build leaves.
FullTable == BuildLoop(EmptyMap, 0)

\* Line 31: the caller reads mapOpNames.empty().
RaceCheck(t) ==
    /\ thr[t].pc = "check"
    /\ thr' = [thr EXCEPT ![t].pc = IF DOMAIN mapOpNames = {} THEN "build" ELSE "lookup",
                          ![t].built = (DOMAIN mapOpNames = {})]
    /\ UNCHANGED << asmvars, mapOpNames, dec >>

\* Lines 32-44: one iteration of the build loop, or its end.
RaceBuild(t) ==
    /\ thr[t].pc = "build"
    /\ IF thr[t].op < FIRST_UNDEFINED_OP_VALUE
       THEN /\ mapOpNames' = InsertOp(mapOpNames, thr[t].op)
            /\ thr' = [thr EXCEPT ![t].op = thr[t].op + 1]
       ELSE /\ thr' = [thr EXCEPT ![t].pc = "lookup"]
            /\ UNCHANGED mapOpNames
    /\ UNCHANGED << asmvars, dec >>

\* Line 109: mapOpNames.count(w), for the word the caller parses.
RaceLookup(t) ==
    /\ thr[t].pc = "lookup"
    /\ thr' = [thr EXCEPT ![t].pc = "done",
                          ![t].found = (thr[t].w \in DOMAIN mapOpNames),
                          ![t].partial = (mapOpNames # FullTable)]
    /\ UNCHANGED << asmvars, mapOpNames, dec >>

InitRace ==
    /\ thr = [t \in Threads |->
                [pc |-> "check", op |-> 0, w |-> <<"A", "D", "D">>,
                 built |-> FALSE, found |-> FALSE, partial |-> FALSE]]
    /\ mapOpNames = EmptyMap
    /\ pc = "idle"
    /\ s = << >>
    /\ words = << >>
    /\ idx = 0
    /\ result = << >>
    /\ push_size = 0
    /\ next_push_size = 0
    /\ script_size = 0
    /\ push_data_size = 0
    /\ size_change = 0
    /\ err = NoError
    /\ trace = << >>
    /\ dec = IdleDec

NextRace == \E t \in Threads : RaceCheck(t) \/ RaceBuild(t) \/ RaceLookup(t)

\* Two callers enter ParseScript for the first time, their steps interleaved.
SpecRace == InitRace /\ [][NextRace]_vars

\* ======================================================== properties
\* What the properties are stated with is written here from the format of
\* the script and of the tokens, without the operators of the model above.

Last == trace[Len(trace)]

\* The word was encoded by one of the four rules: it appended its bytes.
Encoded(e) == e.rule \in {"number", "hex", "quoted", "opcode"}

RECURSIVE LEValue(_)
LEValue(b) == IF b = << >> THEN 0 ELSE b[1] + 256 * LEValue(Tail(b))

\* The push obligation pending after the first i words of the trace, read
\* from the bytes the words appended: exp bytes are expected of the next
\* word, and width # 0 says they are a PUSHDATA length field.
RECURSIVE Pending(_)
Pending(i) ==
    IF i = 0 THEN [exp |-> 0, width |-> 0]
    ELSE LET p == Pending(i - 1)
             b == trace[i].bytes
         IN  IF p.exp # 0 /\ p.width # 0 THEN [exp |-> LEValue(b), width |-> 0]
             ELSE IF p.exp = 0 /\ Len(b) = 1
                  THEN IF b[1] <= 75 THEN [exp |-> b[1], width |-> 0]
                       ELSE IF b[1] = 76 THEN [exp |-> 1, width |-> 1]
                       ELSE IF b[1] = 77 THEN [exp |-> 2, width |-> 2]
                       ELSE IF b[1] = 78 THEN [exp |-> 4, width |-> 4]
                       ELSE [exp |-> 0, width |-> 0]
             ELSE [exp |-> 0, width |-> 0]

DecimalDigits == {"0", "1", "2", "3", "4", "5", "6", "7", "8", "9"}

\* -?[0-9]+
MatchesDecimal(w) ==
    \/ (Len(w) >= 1 /\ \A j \in 1..Len(w) : w[j] \in DecimalDigits)
    \/ (Len(w) >= 2 /\ w[1] = "-" /\ \A j \in 2..Len(w) : w[j] \in DecimalDigits)

HexLetters == <<"a", "b", "c", "d", "e", "f">>
HexCapitals == <<"A", "B", "C", "D", "E", "F">>

IsHexChar(c) ==
    c \in DecimalDigits \/ InSeq(HexLetters, c) \/ InSeq(HexCapitals, c)

HexValue(c) ==
    IF InSeq(HexLetters, c) THEN 9 + IndexOf(HexLetters, c)
    ELSE IF InSeq(HexCapitals, c) THEN 9 + IndexOf(HexCapitals, c)
    ELSE IndexOf(DigitChars, c) - 1

\* A string of hex digits that makes whole bytes.
EvenHexString(h) == Len(h) % 2 = 0 /\ \A j \in 1..Len(h) : IsHexChar(h[j])

\* The bytes an even-length hex string spells.
Spelled(h) ==
    [k \in 1..(Len(h) \div 2) |-> 16 * HexValue(h[2 * k - 1]) + HexValue(h[2 * k])]

HasHexPrefix(w) == Len(w) > 2 /\ w[1] = "0" /\ w[2] = "x"

\* C1: a word that is encoded while N # 0 bytes are expected (N declared by a
\* direct-length push byte, a PUSHDATA opcode or a decoded length field) and
\* that appends a number of bytes other than N ends the call there with a
\* PushSizeMismatch error reporting N and the number of bytes appended; so
\* the N bytes cannot come from several words.
C1_PushSizeMismatch ==
    \A i \in 1..Len(trace) :
        LET e == trace[i]
            N == Pending(i - 1).exp
        IN  (N # 0 /\ Encoded(e) /\ Len(e.bytes) # N)
                => /\ i = Len(trace)
                   /\ pc = "thrown"
                   /\ err.kind = "PushSizeMismatch"
                   /\ err.nums = << N, Len(e.bytes) >>

\* PUSHDATA1, a length field spelling 2, then a single byte: the error
\* reports 2 expected and 1 pushed.
C1_Witness ==
    /\ pc = "thrown"
    /\ Len(trace) = 3
    /\ trace[1].bytes = << 76 >>
    /\ trace[2].bytes = << 2 >>
    /\ Len(trace[3].bytes) = 1
    /\ err.kind = "PushSizeMismatch"
    /\ err.nums = << 2, 1 >>

\* C2: a single byte PUSHDATA1/2/4 appended with nothing pending makes the
\* next word owe exactly 1/2/4 bytes; those bytes, read as an unsigned
\* little-endian number L, are what the word after that owes (nothing when
\* L = 0), and the field width is cleared.
C2_PushDataProtocol ==
    \A i \in 1..Len(trace) :
        LET e == trace[i]
        IN  (Pending(i - 1).exp = 0 /\ ~e.threw /\ Len(e.bytes) = 1
                /\ e.bytes[1] \in {76, 77, 78})
            => LET W == IF e.bytes[1] = 76 THEN 1 ELSE IF e.bytes[1] = 77 THEN 2 ELSE 4
               IN  /\ e.next = W
                   /\ e.nwidth = W
                   /\ (i < Len(trace)) =>
                        LET f == trace[i + 1]
                            L == LEValue(f.bytes)
                        IN  /\ f.push = W
                            /\ (Encoded(f) /\ Len(f.bytes) # W) => f.threw
                            /\ ~f.threw =>
                                 /\ Len(f.bytes) = W
                                 /\ f.next = L
                                 /\ f.nwidth = 0
                                 /\ (i + 1 < Len(trace)) =>
                                      LET d == trace[i + 2]
                                      IN  /\ d.push = L
                                          /\ d.width = 0
                                          /\ (L # 0 /\ Encoded(d) /\ Len(d.bytes) # L)
                                                => d.threw
                                          /\ (L # 0 /\ ~d.threw) => Len(d.bytes) = L
                                          /\ (L = 0 /\ Encoded(d)) => ~d.threw

\* PUSHDATA4, the four bytes 02 00 00 00, then two bytes of data: accepted.
C2_Witness ==
    /\ pc = "returned"
    /\ Len(trace) = 3
    /\ trace[1].bytes = << 78 >>
    /\ trace[2].bytes = << 2, 0, 0, 0 >>
    /\ Len(trace[3].bytes) = 2

\* C3: a call that returns leaves no push obligation open: every obligation
\* of N # 0 bytes that the bytes of a word declare is met by the next word,
\* and none is pending at the end of the input.
C3_PushesComplete ==
    pc = "returned" =>
        /\ next_push_size = 0
        /\ \A i \in 1..Len(trace) :
               Pending(i).exp # 0 =>
                   (i < Len(trace) /\ Len(trace[i + 1].bytes) = Pending(i).exp)

C5_DecimalIffRegex ==
    \A i \in 1..Len(trace) :
        (trace[i].rule = "number") <=> MatchesDecimal(trace[i].w)

\* C6: DecodeHexTx and DecodeHexBlk return false when the string is not
\* valid hex, when the deserializer throws and when it leaves bytes unread,
\* and true only when every decoded byte was consumed.
C6_DecodeHexFalseOnFailure ==
    dec.pc = "done" =>
        /\ (~(dec.hex # << >> /\ EvenHexString(dec.hex)) \/ dec.threw \/ dec.left # 0)
               => dec.ret = FALSE
        /\ dec.ret = TRUE => (dec.ran /\ ~dec.threw /\ dec.left = 0)

\* C7: with two concurrent first callers the build loop is entered by at most
\* one of them, and no caller looks a word up in a table that is not complete.
C7_BuiltOnceNoPartialLookup ==
    /\ Cardinality({t \in DOMAIN thr : thr[t].built}) <= 1
    /\ \A t \in DOMAIN thr : thr[t].pc = "done" => ~thr[t].partial

\* One of the four rules, as the specification words them, takes the word.
SomeRuleMatches(w) ==
    \/ MatchesDecimal(w)
    \/ HasHexPrefix(w)
    \/ (Len(w) >= 2 /\ w[1] = "'" /\ w[Len(w)] = "'")
    \/ w \in DOMAIN FullTable

\* C8: a word that none of the four rules takes ends the call with an
\* UnterminatedOrUnknownToken error carrying the input text, whatever came
\* before it and whatever is pending; nothing is returned.
C8_UnknownTokenFails ==
    \A i \in 1..Len(trace) :
        ~SomeRuleMatches(trace[i].w)
            => /\ i = Len(trace)
               /\ trace[i].threw
               /\ pc = "thrown"
               /\ err.kind = "UnterminatedOrUnknownToken"
               /\ err.text = s

\* C9: a word that starts with 0x and goes on is taken by the hex rule alone:
\* unless what follows the 0x is an even number of hex digits the call ends
\* with MalformedHex, whatever is pending.
C9_HexPrefixOnlyHexRule ==
    \A i \in 1..Len(trace) :
        LET e == trace[i]
        IN  HasHexPrefix(e.w) =>
                IF EvenHexString(Tail_n(e.w, 2))
                THEN e.rule = "hex"
                ELSE /\ e.rule = "badhex"
                     /\ e.threw
                     /\ i = Len(trace)
                     /\ pc = "thrown"
                     /\ err.kind = "MalformedHex"

\* A malformed hex word met while a push of bytes is pending.
C9_Witness ==
    /\ pc = "thrown"
    /\ err.kind = "MalformedHex"
    /\ Len(trace) = 2
    /\ Last.push # 0
    /\ HasHexPrefix(Last.w)

\* C10: a word 0x followed by a non-empty even-length hex string appends the
\* bytes the string spells and nothing else; the script grows by half the
\* length of the string.
C10_HexBytesVerbatim ==
    \A i \in 1..Len(trace) :
        LET e == trace[i]
            h == Tail_n(e.w, 2)
        IN  (HasHexPrefix(e.w) /\ EvenHexString(h)) =>
                /\ e.bytes = Spelled(h)
                /\ Len(e.bytes) = Len(h) \div 2
                /\ (i = Len(trace)) =>
                       /\ Len(result) = script_size + Len(h) \div 2
                       /\ SubSeq(result, script_size + 1, Len(result)) = Spelled(h)
                       /\ size_change = Len(h) \div 2

\* The word 0xaF0a, alone: the script is the two bytes af 0a.
C10_Witness ==
    /\ pc = "returned"
    /\ Len(trace) = 1
    /\ Last.w = <<"0", "x", "a", "F", "0", "a">>
    /\ result = << 175, 10 >>


\* The opcodes of the table, and the two spellings of each: the canonical
\* name, and the name with its first OP_ taken away.
TableOps ==
    {op \in 76..187 : GetOpName(op) # <<"O", "P", "_", "U", "N", "K", "N", "O", "W", "N">>}

FirstOP_(n) ==
    LET at == {j \in 1..(Len(n) - 2) : n[j] = "O" /\ n[j + 1] = "P" /\ n[j + 2] = "_"}
    IN  IF at = {} THEN 0 ELSE CHOOSE j \in at : \A k \in at : j <= k

AliasOf(op) ==
    LET n == GetOpName(op)
        j == FirstOP_(n)
    IN  IF j = 0 THEN n
        ELSE [k \in 1..(Len(n) - 3) |-> IF k < j THEN n[k] ELSE n[k + 3]]

Spellings(op) == {GetOpName(op), AliasOf(op)}

\* The word with every small letter made a capital.
InCapitals(w) ==
    [j \in 1..Len(w) |->
        IF \E k \in 1..26 : LowerChars[k] = w[j]
        THEN UpperChars[CHOOSE k \in 1..26 : LowerChars[k] = w[j]]
        ELSE w[j]]

\* The word is a spelling of a table opcode but for the case of its letters.
OtherCase(w) ==
    /\ \A op \in TableOps : w \notin Spellings(op)
    /\ \E op \in TableOps : \E n \in Spellings(op) : InCapitals(w) = InCapitals(n)

\* C11: for every opcode of the table, the word that is its canonical name
\* and the word that is its alias (the name without its first OP_) are both
\* encoded as the one byte that is the opcode's value; the lookup is exact:
\* the opcode rule encodes only words that are such a spelling, and a word
\* that differs from a spelling by the case of a letter is an unknown token.
C11_NameAndAliasSameByte ==
    \A i \in 1..Len(trace) :
        LET e == trace[i]
        IN  /\ \A op \in TableOps :
                   e.w \in Spellings(op) => Encoded(e) /\ e.bytes = << op >>
            /\ e.rule = "opcode" => \E op \in TableOps : e.w \in Spellings(op)
            /\ OtherCase(e.w) => e.rule = "none" /\ e.threw /\ e.bytes = << >>

\* OP_1ADD and 1ADD were both assembled to the byte 0x8b, and op_1add was not.
C11_Witness ==
    /\ pc = "returned"
    /\ Len(trace) = 1
    /\ Last.rule = "opcode"
    /\ Last.w = <<"1", "A", "D", "D">>
    /\ result = << 139 >>


\* The ASCII code of the characters the quoted words are written with.
Ascii(c) ==
    CASE c = "'" -> 39 [] c = "-" -> 45 [] c = "0" -> 48 [] c = "1" -> 49
      [] c = "F" -> 70 [] c = "\\" -> 92 [] c = "a" -> 97 [] c = "g" -> 103
      [] c = "x" -> 120

IsQuotedWord(w) == Len(w) >= 2 /\ w[1] = "'" /\ w[Len(w)] = "'"

\* What is between the first and the last character of the word.
Content(w) == [j \in 1..(Len(w) - 2) |-> w[j + 1]]

\* C12: a word in single quotes with L characters between them is encoded
\* by the quoted rule as a data push: the push prefix of L, then the L bytes
\* of the content as they are written, a quote or a backslash among them
\* included; for L <= 75 the prefix is the one byte L, L + 1 bytes in all.
C12_QuotedPushesContent ==
    \A i \in 1..Len(trace) :
        LET e == trace[i]
            c == Content(e.w)
        IN  IsQuotedWord(e.w) /\ Len(c) <= 75 =>
                /\ e.rule = "quoted"
                /\ Len(e.bytes) = Len(c) + 1
                /\ e.bytes[1] = Len(c)
                /\ \A j \in 1..Len(c) : e.bytes[j + 1] = Ascii(c[j])

\* The word with the three characters quote, backslash, a between its
\* quotes was assembled to 03 27 5c 61.
C12_Witness ==
    /\ pc = "returned"
    /\ Len(trace) = 1
    /\ Last.w = <<"'", "'", "\\", "a", "'">>
    /\ result = << 3, 39, 92, 97 >>


IsBlank(c) == c = " " \/ c = "\t" \/ c = "\n"

\* Where the tokens of s begin: at a character that is not whitespace and
\* has whitespace, or nothing, before it.
TokenStarts == {j \in 1..Len(s) : ~IsBlank(s[j]) /\ (j = 1 \/ IsBlank(s[j - 1]))}

\* The token that begins at j: up to the next whitespace or the end of s.
TokenAt(j) ==
    LET stops == {k \in j..Len(s) : k = Len(s) \/ IsBlank(s[k + 1])}
    IN  SubSeq(s, j, CHOOSE k \in stops : \A l \in stops : k <= l)

\* The tokens of s in order.
Tokens ==
    [n \in 1..Cardinality(TokenStarts) |->
        TokenAt(CHOOSE j \in TokenStarts :
                    Cardinality({k \in TokenStarts : k < j}) = n - 1)]

RECURSIVE BytesOf(_)
BytesOf(i) == IF i = 0 THEN << >> ELSE BytesOf(i - 1) \o trace[i].bytes

\* C13: the call works on the tokens of s alone, the maximal runs of
\* characters other than space, tab and newline, in their order: whitespace
\* of any length between them, before the first or after the last makes no
\* word that is encoded, appends no byte and leaves the pending push as the
\* last token set it; a text with no token assembles to no bytes.
C13_OnlyTokensMatter ==
    pc \in {"loop", "returned", "thrown"} =>
        /\ Len(trace) <= Len(Tokens)
        /\ \A i \in 1..Len(trace) : trace[i].w = Tokens[i]
        /\ pc = "returned" => Len(trace) = Len(Tokens)
        /\ pc = "thrown" => Len(trace) >= 1 /\ Last.threw
        /\ \A i \in 1..(Len(trace) - 1) : ~trace[i].threw
        /\ result = BytesOf(Len(trace))
        /\ pc # "thrown" =>
               /\ next_push_size = (IF trace = << >> THEN 0 ELSE Last.next)
               /\ push_data_size = (IF trace = << >> THEN 0 ELSE Last.nwidth)
        /\ \A i \in 2..Len(trace) :
               trace[i].push = trace[i - 1].next /\ trace[i].width = trace[i - 1].nwidth
        /\ (Tokens = << >> /\ pc = "returned") => result = << >>

\* Two tokens between a newline, a tab and spaces, with a tab before and two
\* spaces after: the push 0x02 declares is satisfied across the whitespace.
C13_Witness ==
    /\ pc = "returned"
    /\ s = <<"\t">> \o t_0x \o <<"0", "2">> \o <<"\n", "\t", " ">>
               \o <<"'", "a", "'">> \o <<" ", " ">>
    /\ idx = 4
    /\ Len(trace) = 2
    /\ trace[2].push = 2
    /\ result = << 2, 1, 97 >>


\* What one byte appended with nothing pending asks of the next word: how
\* many bytes, and whether they are a length field of that width.
Asked(b) ==
    IF b <= 75 THEN [exp |-> b, width |-> 0]
    ELSE IF b = 76 THEN [exp |-> 1, width |-> 1]
    ELSE IF b = 77 THEN [exp |-> 2, width |-> 2]
    ELSE IF b = 78 THEN [exp |-> 4, width |-> 4]
    ELSE [exp |-> 0, width |-> 0]

\* C14 as claimed: a 0x word encoded with nothing pending never leaves a
\* push pending for the word after it, whatever bytes it injects.
C14_HexNeverCreatesObligation ==
    \A i \in 1..Len(trace) :
        LET e == trace[i]
        IN  (e.rule = "hex" /\ ~e.threw /\ e.push = 0) =>
                e.next = 0 /\ e.nwidth = 0

\* C14: a 0x word bypasses the encoding (its bytes are appended with no push
\* prefix) but not the bookkeeping: encoded with nothing pending, a 0x word
\* of two or more bytes leaves nothing pending whatever its bytes are, and a
\* 0x word of one byte leaves pending what that byte declares, as the
\* mnemonic of the same byte would; the next word is held to it.
C14_HexOneByteInspected ==
    \A i \in 1..Len(trace) :
        LET e == trace[i]
        IN  (e.rule = "hex" /\ ~e.threw /\ e.push = 0) =>
                /\ Len(e.bytes) = (Len(e.w) - 2) \div 2
                /\ Len(e.bytes) >= 2 => e.next = 0 /\ e.nwidth = 0
                /\ Len(e.bytes) = 1 =>
                       /\ e.next = Asked(e.bytes[1]).exp
                       /\ e.nwidth = Asked(e.bytes[1]).width
                /\ i < Len(trace) =>
                       trace[i + 1].push = e.next /\ trace[i + 1].width = e.nwidth

\* 0x02 left two bytes pending, which 0xaaBB supplied; the two bytes of
\* 0x0100 after it, the first the push value 1, left nothing pending.
C14_Witness ==
    /\ pc = "returned"
    /\ Len(trace) = 3
    /\ trace[1].w = <<"0", "x", "0", "2">> /\ trace[1].next = 2
    /\ trace[2].rule = "hex" /\ trace[2].push = 2
    /\ trace[3].w = <<"0", "x", "0", "1", "0", "0">> /\ trace[3].next = 0
    /\ next_push_size = 0
    /\ result = << 2, 170, 187, 1, 0 >>


\* C15: a word encoded by any of the four rules while nothing is pending
\* and appending exactly one byte v < 76 makes v the number of bytes expected
\* of the next word (nothing when v = 0), with no length field announced;
\* when its one byte is an opcode other than PUSHDATA1, PUSHDATA2 and
\* PUSHDATA4, or when it appends no byte or several, nothing is expected.
C15_DirectPushDeclares ==
    \A i \in 1..Len(trace) :
        LET e == trace[i]
            b == e.bytes
        IN  (Encoded(e) /\ ~e.threw /\ Pending(i - 1).exp = 0) =>
                /\ e.push = 0 /\ e.width = 0
                /\ (Len(b) = 1 /\ b[1] < 76) => e.next = b[1] /\ e.nwidth = 0
                /\ (Len(b) = 1 /\ b[1] > 78) => e.next = 0 /\ e.nwidth = 0
                /\ Len(b) # 1 => e.next = 0 /\ e.nwidth = 0
                /\ i < Len(trace) => trace[i + 1].push = e.next

\* ADD left nothing pending; 0x01 after it left one byte pending, which the
\* empty quoted string supplied with its byte 0.
C15_Witness ==
    /\ pc = "returned"
    /\ Len(trace) = 3
    /\ trace[1].rule = "opcode" /\ trace[1].bytes = << 147 >> /\ trace[1].next = 0
    /\ trace[2].bytes = << 1 >> /\ trace[2].push = 0 /\ trace[2].next = 1
    /\ trace[3].rule = "quoted" /\ trace[3].push = 1
    /\ result = << 147, 1, 0 >>


\* C16: a word that supplies the N # 0 bytes of a pending data push (not a
\* length field) leaves nothing pending: its bytes are data and are not
\* looked at, also when N = 1 and the byte is a push value or PUSHDATA1,
\* PUSHDATA2 or PUSHDATA4; the word after it is free in its size.
C16_DataNotInspected ==
    \A i \in 1..Len(trace) :
        LET e == trace[i]
            p == Pending(i - 1)
        IN  (Encoded(e) /\ ~e.threw /\ p.exp # 0 /\ p.width = 0
                /\ Len(e.bytes) = p.exp) =>
                /\ e.push = p.exp /\ e.width = 0
                /\ e.next = 0 /\ e.nwidth = 0
                /\ i < Len(trace) =>
                       /\ trace[i + 1].push = 0 /\ trace[i + 1].width = 0
                       /\ Encoded(trace[i + 1]) => ~trace[i + 1].threw

\* The byte 0x4c was the data of the push 0x01 declared: no length field
\* was asked of ADD after it.
C16_Witness ==
    /\ pc = "returned"
    /\ Len(trace) = 3
    /\ trace[1].bytes = << 1 >> /\ trace[1].next = 1
    /\ trace[2].bytes = << 76 >> /\ trace[2].push = 1 /\ trace[2].next = 0
    /\ trace[3].rule = "opcode" /\ trace[3].push = 0
    /\ result = << 1, 76, 147 >>


\* C17 as claimed: every value of the table is at least PUSHDATA1 and below
\* the first undefined value, and a word encoded by the opcode rule leaves a
\* push pending only when it is PUSHDATA1, PUSHDATA2 or PUSHDATA4.
C17_OnlyPushDataCreates ==
    /\ \A k \in DOMAIN mapOpNames :
           OP_PUSHDATA1 <= mapOpNames[k] /\ mapOpNames[k] < FIRST_UNDEFINED_OP_VALUE
    /\ \A i \in 1..Len(trace) :
           LET e == trace[i]
           IN  (e.rule = "opcode" /\ ~e.threw /\ e.next # 0) =>
                   e.bytes[1] \in {76, 77, 78}

\* C17: every value of the table is at least PUSHDATA1 and below the first
\* undefined value, so the opcode rule never appends a byte from 0 to 75;
\* a word it encodes that is not the length field of a PUSHDATA leaves a
\* push pending only when it is PUSHDATA1, PUSHDATA2 or PUSHDATA4, and one
\* that is the length field leaves pending the number its byte spells.
C17_TableAbovePushes ==
    /\ \A k \in DOMAIN mapOpNames :
           OP_PUSHDATA1 <= mapOpNames[k] /\ mapOpNames[k] < FIRST_UNDEFINED_OP_VALUE
    /\ \A i \in 1..Len(trace) :
           LET e == trace[i]
           IN  e.rule = "opcode" =>
                   /\ Len(e.bytes) = 1
                   /\ e.bytes[1] >= 76
                   /\ (~e.threw /\ e.width = 0 /\ e.next # 0) =>
                          e.push = 0 /\ e.bytes[1] \in {76, 77, 78}
                   /\ (~e.threw /\ e.width # 0) => e.next = e.bytes[1]

\* PUSHDATA1 announced a length field of one byte, and ADD after it was that
\* field: 147 bytes are pending.
C17_Witness ==
    /\ pc = "returned"
    /\ DOMAIN mapOpNames # {}
    /\ Len(trace) = 2
    /\ trace[1].rule = "opcode" /\ trace[1].bytes = << 76 >>
    /\ trace[1].next = 1 /\ trace[1].nwidth = 1
    /\ trace[2].rule = "opcode" /\ trace[2].w = <<"A", "D", "D">>
    /\ next_push_size = 147


\* What one call on the words ws does in a process that made no call before:
\* the table is the one a first call builds and nothing is pending at the
\* first word.  The claim compares a call with a call, so this one is put
\* together from the rules and the bookkeeping of the model.
RECURSIVE FreshFrom(_, _, _, _, _, _)
FreshFrom(text, ws, i, res, next, width) ==
    IF i > Len(ws) THEN [pc |-> "returned", result |-> res, err |-> NoError]
    ELSE IF ws[i] = << >> THEN FreshFrom(text, ws, i + 1, res, next, width)
    ELSE LET rule  == Rule(FullTable, ws[i])
             bytes == Emit(FullTable, ws[i])
             bk    == Bookkeep(next, width, Len(bytes), res \o bytes, Len(res))
         IN  IF rule = "badhex"
             THEN [pc |-> "thrown", result |-> res, err |-> HexError(text, ws[i])]
             ELSE IF rule = "none"
             THEN [pc |-> "thrown", result |-> res, err |-> ParseError(text, ws[i])]
             ELSE IF Mismatch(next, Len(bytes))
             THEN [pc |-> "thrown", result |-> res \o bytes,
                   err |-> PushError(text, next, Len(bytes))]
             ELSE FreshFrom(text, ws, i + 1, res \o bytes, bk.next, bk.width)

Fresh(text) == FreshFrom(text, split(text), 1, << >>, 0, 0)

\* C18: a call does what it would do as the first call of a process,
\* whatever calls came before it, those that threw and those that returned
\* with a push pending included: it returns the same bytes or throws the
\* same error, nothing is pending when its first word is read, and the
\* table, built by the first call, is the same table ever after.
C18_CallsIndependent ==
    /\ [](/\ pc = "returned" => result = Fresh(s).result /\ Fresh(s).pc = "returned"
          /\ pc = "thrown" => err = Fresh(s).err /\ Fresh(s).pc = "thrown"
          /\ (pc = "loop" /\ idx = 0) =>
                 next_push_size = 0 /\ push_data_size = 0 /\ result = << >>
          /\ pc # "entry" => mapOpNames = FullTable)
    /\ [][mapOpNames # EmptyMap => mapOpNames' = mapOpNames]_vars

\* ADD is assembled to its byte by a call made after a call that threw a
\* size mismatch.
C18_Witness ==
    /\ pc = "returned"
    /\ s = <<"A", "D", "D">>
    /\ result = << 147 >>
    /\ err.kind = "PushSizeMismatch"


\* C19: between two words and at the return, the width of the length field
\* that is awaited is 0, 1, 2 or 4, and when it is not 0 the number of bytes
\* expected of the next word is that width; so the word that is the length
\* field appended exactly that many bytes, the field is read from those
\* bytes, the last of the buffer, and no field is awaited after that word.
C19_FieldWidthInvariant ==
    pc \in {"loop", "returned"} =>
        /\ push_data_size \in {0, 1, 2, 4}
        /\ push_data_size # 0 => next_push_size = push_data_size
        /\ \A i \in 1..Len(trace) :
               LET e == trace[i]
               IN  /\ e.width \in {0, 1, 2, 4}
                   /\ e.width # 0 =>
                          /\ e.push = e.width
                          /\ i > 1 /\ trace[i - 1].bytes \in {<<76>>, <<77>>, <<78>>}
                          /\ Len(e.bytes) = e.width
                          /\ e.next = LEValue(e.bytes)
                          /\ e.nwidth = 0
                          /\ Len(BytesOf(i)) = Len(BytesOf(i - 1)) + e.width
        /\ (trace # << >> /\ idx > 0 /\ Last.width # 0) =>
               /\ script_size + Last.width = Len(result)
               /\ Last.bytes = SubSeq(result, script_size + 1, Len(result))

\* 0x4D announced a field of two bytes; 0x0100 was that field and left one
\* byte pending and no field awaited; 0x01 was that byte.
C19_Witness ==
    /\ pc = "returned"
    /\ Len(trace) = 3
    /\ trace[1].bytes = << 77 >> /\ trace[1].nwidth = 2 /\ trace[1].next = 2
    /\ trace[2].width = 2 /\ trace[2].bytes = << 1, 0 >>
    /\ trace[2].next = 1 /\ trace[2].nwidth = 0
    /\ trace[3].push = 1 /\ trace[3].width = 0
    /\ push_data_size = 0
    /\ result = << 77, 1, 0, 1 >>


\* The encoding of a word by the rule that takes it, which is given the
\* word and the table and nothing of what is pending.
OwnEncoding(w) == Emit(FullTable, w)

\* The own encodings of the first n tokens of s, one after the other.
RECURSIVE Encodings(_)
Encodings(n) == IF n = 0 THEN << >> ELSE Encodings(n - 1) \o OwnEncoding(Tokens[n])

\* C20: the bookkeeping accepts or rejects and never changes the output:
\* the bytes a call returns are the own encodings of the tokens of s in
\* their order, and no step of a call changes or removes a byte that is in
\* the buffer: the buffer only grows at its end.
C20_OutputIsConcatenation ==
    /\ [](pc = "returned" => result = Encodings(Len(Tokens)))
    /\ [][/\ Len(result') >= Len(result)
          /\ SubSeq(result', 1, Len(result)) = result]_vars

\* PUSHDATA1, its length field 02 and the two bytes it announces, each
\* checked against what was pending, make the four bytes returned.
C20_Witness ==
    /\ pc = "returned"
    /\ Len(trace) = 3
    /\ trace[2].width = 1 /\ trace[3].push = 2
    /\ result = << 76, 2, 170, 187 >>

=============================================================================
